---- MODULE Spec2Model ----
(***************************************************************************)
(* Model of the superdense-coding frontend's protocol core:                *)
(*   - Receiver (App.jsx): the job-stream consumer built on an EventSource *)
(*   - processSuperdenseCoding (FullSimulation.jsx): chunking, one-time    *)
(*     pad, the endpoint failover loop and the fidelity gate.              *)
(* Bit strings are sequences over {0,1}; job ids are sequences of          *)
(* characters so that String.slice is modelled by what it does.            *)
(***************************************************************************)
EXTENDS Integers, Sequences, FiniteSets, TLC

VARIABLES
  \* ---- Receiver component state (App.jsx:79-84)
  decodedResult,    \* useState(null)
  progressLogs,     \* useState([])
  loading,          \* useState(false)
  error,            \* useState(null)
  progress,         \* useState(0), a rational <<num, den>> in lowest terms
  eventSourceRef,   \* useRef(null): 0 is null, otherwise an index into conns
  conns,            \* readyState of every EventSource created so far
  mounted,          \* the component is mounted (the cleanup has not run)
  \* ---- what the current stream has delivered (history of the session)
  lastSeen,         \* job id -> most recent progress event for that id
  lastProgress,     \* most recent progress event of the session
  terminal,         \* first terminal outcome of the session
  superseded,       \* connections a session start closed while still live
  \* ---- one call of processSuperdenseCoding (FullSimulation.jsx:166-268)
  pc,               \* where the call stands
  binaryData,       \* argument: the bit string to send
  qkdKey,           \* argument: the key
  urlIdx,           \* position of the for..of loop in urlsToTry
  lastError,        \* let lastError = null
  timers,           \* attempts whose abort timer is armed (setTimeout)
  response,         \* the Response the current fetch resolved with
  sdcRes,           \* the value the call returned
  thrown,           \* the error the call threw
  \* ---- the network's side of the call (history)
  requests,         \* URLs requested, in order
  outcomes,         \* how each finished attempt ended
  \* ---- handleRunFullSimulation after the call (FullSimulation.jsx:372-373)
  simPc,            \* where the run stands once the call has returned
  decryptedMessage, \* useState(''), set from reconstructBinaryData
  \* ---- FullSimulation page state around a run (FullSimulation.jsx:42-60)
  store,            \* localStorage: qkdKey, qkdSecure, encryptedBinary
  isLoading,        \* useState(false)
  simError,         \* useState(null)
  sdcResults,       \* useState(null)
  predicted,        \* predictedLat, predictedLon, predictedRestricted
  decoded,          \* the coordinates decoded from the reconstructed string
  \* ---- one application of a function of the pipeline or of a page's
  \*      entry point to given arguments
  applied,          \* which one was applied ("none" before)
  input,            \* its arguments
  output            \* what it returned or did

rxVars == <<decodedResult, progressLogs, loading, error, progress,
            eventSourceRef, conns, mounted, lastSeen, lastProgress, terminal,
            superseded>>

callVars == <<pc, binaryData, qkdKey, urlIdx, lastError, timers, response,
              sdcRes, thrown, requests, outcomes>>

runVars == <<store, isLoading, simError, sdcResults, predicted, decoded>>

sendVars == <<callVars, simPc, decryptedMessage, runVars>>

fnVars == <<applied, input, output>>

vars == <<rxVars, sendVars, fnVars>>

\* ------------------------------------------------------------------ bounds
MaxSessions == 2
MaxLogs == 3
MaxBits == 3
MaxKeyLen == 3
MaxOffset == 4

\* ------------------------------------------------------------- JS helpers
Null == "null"

Min(a, b) == IF a < b THEN a ELSE b

RECURSIVE GCD(_, _)
GCD(a, b) == IF b = 0 THEN a ELSE GCD(b, a % b)

\* a / b as an exact rational in lowest terms (b > 0)
Ratio(a, b) == LET g == GCD(a, b) IN IF g = 0 THEN <<0, 1>> ELSE <<a \div g, b \div g>>

\* String.prototype.slice(0, n)
SliceLen == 10
Slice0(s, n) == SubSeq(s, 1, Min(Len(s), n))

\* Array.prototype.findIndex (0 when nothing matches, JS gives -1)
FindIndex(logs, id) ==
  LET hits == {i \in 1..Len(logs) : logs[i].job_id = id}
  IN IF hits = {} THEN 0 ELSE CHOOSE i \in hits : \A j \in hits : i <= j

\* ------------------------------------------------------ event vocabulary
LongId(c) == <<"j", "o", "b", "-", "0", "1", "2", "3", "4", "5", c>>
JobIds == {LongId("x"), LongId("y")}
Statuses == {"success", ""}
Messages == {"queued", "running"}
TotalJobCounts == {2}
Results == {"r1", "r2"}
ErrorMessages == {"backend down"}

ProgressEvents ==
  UNION {[type : {"progress"}, job_id : JobIds, current_job : 1..t,
          total_jobs : {t}, status : Statuses, message : Messages]
         : t \in TotalJobCounts}

NoEvent == [type |-> "none", job_id |-> <<>>, current_job |-> 0,
            total_jobs |-> 0, status |-> "", message |-> ""]

NoTerminal == [kind |-> "none", payload |-> Null]

\* a log entry; job_id = <<>> stands for an entry without a job_id field
Log(id, type, kind, a, b, prefix, text) ==
  [job_id |-> id, type |-> type,
   message |-> [kind |-> kind, a |-> a, b |-> b, prefix |-> prefix, text |-> text]]

OpenedLog == Log(<<>>, "info", "opened", 0, 0, <<>>, "")
FoundLog(n) == Log(<<>>, "info", "found", n, 0, <<>>, "")
DoneLog == Log(<<>>, "success", "all-done", 0, 0, <<>>, "")
ErrorLog(m) == Log(<<>>, "error", "ERROR", 0, 0, <<>>, m)

ConnectionFailedMessage == "Connection to the server failed. Make sure the backend is running."

\* ------------------------------------------------------------ EventSource
\* EventSource.close(): readyState becomes CLOSED; closing twice is a no-op
CloseConn(cs, c) == [cs EXCEPT ![c] = "CLOSED"]

\* App.jsx:99-101
ClosePreviousSkipped(cs, ref) == cs
ClosePrevious(cs, ref) == IF ref # 0 THEN CloseConn(cs, ref) ELSE cs

\* App.jsx:153-157
CleanupSkipped(cs, ref) == cs
Cleanup(cs, ref) == IF ref # 0 THEN CloseConn(cs, ref) ELSE cs

\* App.jsx:119-123
NewLog(data) ==
  Log(data.job_id,
      IF data.status # "" THEN data.status ELSE "progress",
      "job", data.current_job, data.total_jobs,
      Slice0(data.job_id, SliceLen), data.message)

\* App.jsx:117-130
UpsertAlwaysAppend(prev, data) == Append(prev, NewLog(data))
Upsert(prev, data) ==
  LET existingLogIndex == FindIndex(prev, data.job_id)
  IN IF existingLogIndex > 0
     THEN [prev EXCEPT ![existingLogIndex] = NewLog(data)]
     ELSE Append(prev, NewLog(data))

\* App.jsx:116
ProgressOf(data) == Ratio(data.current_job * 100, data.total_jobs)

\* --------------------------------------------------------------- Receiver
InitRx ==
  /\ decodedResult = Null
  /\ progressLogs = <<>>
  /\ loading = FALSE
  /\ error = Null
  /\ progress = <<0, 1>>
  /\ eventSourceRef = 0
  /\ conns = <<>>
  /\ mounted = TRUE
  /\ lastSeen = [j \in JobIds |-> NoEvent]
  /\ lastProgress = NoEvent
  /\ terminal = NoTerminal
  /\ superseded = {}

\* App.jsx:92-104.  The function is taken as callable whenever the component
\* is mounted, also while a stream is live: the button that disables it while
\* loading (App.jsx:170) is outside the function.
LogsKeptAtSessionStart(prev) == prev
LogsAtSessionStart(prev) == <<>>

FetchDecodedJobs ==
  /\ mounted
  /\ Len(conns) < MaxSessions
  /\ loading' = TRUE
  /\ error' = Null
  /\ decodedResult' = Null
  /\ progressLogs' = LogsAtSessionStart(progressLogs)
  /\ progress' = <<0, 1>>
  /\ conns' = Append(ClosePrevious(conns, eventSourceRef), "CONNECTING")
  /\ eventSourceRef' = Len(conns) + 1
  /\ lastSeen' = [j \in JobIds |-> NoEvent]
  /\ lastProgress' = NoEvent
  /\ terminal' = NoTerminal
  /\ superseded' = superseded \cup
                     {c \in 1..Len(conns) : conns[c] # "CLOSED" /\ conns'[c] = "CLOSED"}
  /\ UNCHANGED mounted

Live(c) == c \in 1..Len(conns) /\ conns[c] # "CLOSED"

NoteTerminal(kind, payload) ==
  IF terminal = NoTerminal THEN [kind |-> kind, payload |-> payload] ELSE terminal

\* App.jsx:106-108
OnOpen(c) ==
  /\ Live(c) /\ conns[c] = "CONNECTING"
  /\ conns' = [conns EXCEPT ![c] = "OPEN"]
  /\ progressLogs' = Append(progressLogs, OpenedLog)
  /\ UNCHANGED <<decodedResult, loading, error, progress, eventSourceRef,
                 mounted, lastSeen, lastProgress, terminal, superseded>>

\* App.jsx:113-114
OnStart(c, n) ==
  /\ Live(c) /\ conns[c] = "OPEN"
  /\ Len(progressLogs) < MaxLogs
  /\ progressLogs' = Append(progressLogs, FoundLog(n))
  /\ UNCHANGED <<decodedResult, loading, error, progress, eventSourceRef,
                 conns, mounted, lastSeen, lastProgress, terminal, superseded>>

\* App.jsx:115-130
OnProgress(c, data) ==
  /\ Live(c) /\ conns[c] = "OPEN"
  /\ Len(progressLogs) < MaxLogs \/ FindIndex(progressLogs, data.job_id) > 0
  /\ progress' = ProgressOf(data)
  /\ progressLogs' = Upsert(progressLogs, data)
  /\ lastSeen' = [lastSeen EXCEPT ![data.job_id] = data]
  /\ lastProgress' = data
  /\ UNCHANGED <<decodedResult, loading, error, eventSourceRef, conns,
                 mounted, terminal, superseded>>

\* App.jsx:131-136
DoneConnsLeftOpen(cs, c) == cs
DoneConns(cs, c) == CloseConn(cs, c)

OnDone(c, result) ==
  /\ Live(c) /\ conns[c] = "OPEN"
  /\ decodedResult' = result
  /\ progress' = <<100, 1>>
  /\ progressLogs' = Append(progressLogs, DoneLog)
  /\ conns' = DoneConns(conns, c)
  /\ loading' = FALSE
  /\ terminal' = NoteTerminal("done", result)
  /\ UNCHANGED <<error, eventSourceRef, mounted, lastSeen, lastProgress,
                 superseded>>

\* App.jsx:137-142
ErrorEventConnsLeftOpen(cs, c) == cs
ErrorEventConns(cs, c) == CloseConn(cs, c)

OnErrorEvent(c, m) ==
  /\ Live(c) /\ conns[c] = "OPEN"
  /\ error' = m
  /\ progressLogs' = Append(progressLogs, ErrorLog(m))
  /\ conns' = ErrorEventConns(conns, c)
  /\ loading' = FALSE
  /\ terminal' = NoteTerminal("error", m)
  /\ UNCHANGED <<decodedResult, progress, eventSourceRef, mounted, lastSeen,
                 lastProgress, superseded>>

\* App.jsx:145-149.  The browser fires the error event either after a fatal
\* failure (readyState already CLOSED) or while it schedules a reconnect
\* (readyState CONNECTING); the handler then runs on that connection.
TransportConnsLeftOpen(cs, c) == cs
TransportConns(cs, c) == CloseConn(cs, c)

OnError(c, fatal) ==
  /\ Live(c)
  /\ error' = ConnectionFailedMessage
  /\ conns' = TransportConns(
                 [conns EXCEPT ![c] = IF fatal THEN "CLOSED" ELSE "CONNECTING"], c)
  /\ loading' = FALSE
  /\ terminal' = NoteTerminal("transport", ConnectionFailedMessage)
  /\ UNCHANGED <<decodedResult, progress, progressLogs, eventSourceRef,
                 mounted, lastSeen, lastProgress, superseded>>

\* App.jsx:152-158
Unmount ==
  /\ mounted
  /\ mounted' = FALSE
  /\ conns' = Cleanup(conns, eventSourceRef)
  /\ UNCHANGED <<decodedResult, progressLogs, loading, error, progress,
                 eventSourceRef, lastSeen, lastProgress, terminal, superseded>>

Handler(c) ==
  \/ OnOpen(c)
  \/ \E n \in TotalJobCounts : OnStart(c, n)
  \/ \E data \in ProgressEvents : OnProgress(c, data)
  \/ \E r \in Results : OnDone(c, r)
  \/ \E m \in ErrorMessages : OnErrorEvent(c, m)
  \/ \E fatal \in BOOLEAN : OnError(c, fatal)

\* ------------------------------------------------- processSuperdenseCoding
Bit == {0, 1}

BitStrings(n) == UNION {[1..k -> Bit] : k \in 0..n}

Keys == {<<>>, <<1>>, <<0, 1, 1>>}

\* parseInt(a) ^ parseInt(b) on bit characters
Xor(a, b) == (a + b) % 2

\* String.prototype.padEnd(n, '0')
PadEnd(s, n) == s \o [i \in 1..(IF Len(s) < n THEN n - Len(s) ELSE 0) |-> 0]

\* String.prototype.slice(from, to) with 0-based bounds
SliceOne(s, from, to) == SubSeq(s, from + 1, Min(Len(s), from + 1))
Slice(s, from, to) == SubSeq(s, from + 1, Min(Len(s), to))

\* FullSimulation.jsx:145-153
oneTimePadEncryptNoOffset(chunk, key, keyOffset) ==
  IF key = <<>> \/ chunk = <<>> THEN chunk
  ELSE [i \in 1..Len(chunk) |-> Xor(chunk[i], key[((i - 1) % Len(key)) + 1])]
oneTimePadEncrypt(chunk, key, keyOffset) ==
  IF key = <<>> \/ chunk = <<>> THEN chunk
  ELSE [i \in 1..Len(chunk) |->
          Xor(chunk[i], key[((keyOffset + (i - 1)) % Len(key)) + 1])]

\* FullSimulation.jsx:169-173
Chunks(data) ==
  [k \in 1..((Len(data) + 1) \div 2) |->
     PadEnd(Slice(data, 2 * (k - 1), 2 * (k - 1) + 2), 2)]

\* HomePage.jsx:521-527
splitIntoChunks(binStr) ==
  [k \in 1..((Len(binStr) + 1) \div 2) |->
     Slice(binStr, 2 * (k - 1), 2 * (k - 1) + 2)]

\* ComparisionNew.jsx:33
AnalysisLimit == 33

\* String.prototype.match(/.{1,2}/g): greedy runs of two characters and a
\* last run of one; null (here the empty list, as `|| []` makes of it) when
\* nothing matches
MatchOneOrTwo(str) ==
  [k \in 1..((Len(str) + 1) \div 2) |->
     SubSeq(str, 2 * k - 1, Min(Len(str), 2 * k))]

\* ComparisionNew.jsx:31-33
AnalysisBits(encryptedBinary) ==
  SubSeq(MatchOneOrTwo(encryptedBinary), 1,
         Min(Len(MatchOneOrTwo(encryptedBinary)), AnalysisLimit))

\* String.prototype.charCodeAt on a bit character: '0' is 48, '1' is 49
CharCodes(str) == [i \in 1..Len(str) |-> 48 + str[i]]

\* messageChar ^ keyBit on a character code and a key bit
XorCode(code, bit) ==
  IF bit = 0 THEN code ELSE IF code % 2 = 0 THEN code + 1 ELSE code - 1

\* FullSimulation.jsx:10-20
otpEncrypt(message, key) ==
  IF key = <<>> THEN message
  ELSE [i \in 1..Len(message) |->
          XorCode(message[i], key[((i - 1) % Len(key)) + 1])]

\* FullSimulation.jsx:23-25
otpDecrypt(encryptedMessage, key) == otpEncrypt(encryptedMessage, key)

\* FullSimulation.jsx:175-178 (idx is 0-based in the source, k = idx + 1)
EncryptedChunksByIndex(chunks, key) ==
  [k \in 1..Len(chunks) |->
     oneTimePadEncrypt(chunks[k], key, (k - 1) % Len(key))]
EncryptedChunks(chunks, key) ==
  [k \in 1..Len(chunks) |->
     oneTimePadEncrypt(chunks[k], key, ((k - 1) * 2) % Len(key))]

\* config.js (src/unnamed/part_001:6-17)
baseURL == "http://localhost:5008"
compareCorrected == "/compare33_corrected"
fallbackURLs == <<"http://127.0.0.1:5008">>

Url(base, path) == [base |-> base, path |-> path]

\* FullSimulation.jsx:180-183
urlsToTryFallbackFirst ==
  [i \in 1..Len(fallbackURLs) |-> Url(fallbackURLs[i], compareCorrected)]
    \o <<Url(baseURL, compareCorrected)>>
urlsToTry ==
  <<Url(baseURL, compareCorrected)>>
    \o [i \in 1..Len(fallbackURLs) |-> Url(fallbackURLs[i], compareCorrected)]

\* ---- errors: message text, with the URL and status the generic text embeds
NoUrl == Url("", "")
Err(text, url, status) == [text |-> text, url |-> url, status |-> status]
NoError == Err("", NoUrl, 0)
FailedToFetch == Err("Failed to fetch", NoUrl, 0)
AbortError == Err("The user aborted a request.", NoUrl, 0)
JsonError == Err("Unexpected end of JSON input", NoUrl, 0)
NullBodyError == Err("Cannot read properties of null", NoUrl, 0)
UnknownError == Err("Unknown error", NoUrl, 0)

\* ---- what an endpoint can answer
ErrorStatuses == {500}
BackendMessages == {"", "shots must be positive"}
Fidelities == {49999, 50000}          \* thousandths of a percent
ReceivedChunks == {<<1, 1>>}

\* one entry of corrected_messages; has_* is FALSE for a missing field
Item(hc, c, hf, f) == [has_cm |-> hc, corrected_message |-> c,
                       has_fidelity |-> hf, fidelity |-> f]
Items ==
  {Item(hc, c, hf, f) : hc \in BOOLEAN, c \in ReceivedChunks,
                        hf \in BOOLEAN, f \in Fidelities}
NormalItems ==
  {Item(it.has_cm, IF it.has_cm THEN it.corrected_message ELSE <<>>,
        it.has_fidelity, IF it.has_fidelity THEN it.fidelity ELSE 0) : it \in Items}
EmptyItem == Item(FALSE, <<>>, FALSE, 0)

ItemLists(n) == UNION {[1..k -> NormalItems] : k \in 0..n}

NoResponse == [ok |-> FALSE, status |-> 0]

\* FullSimulation.jsx:230 (fidelity in thousandths of a percent)
StatusOfStrict(fidelity) == IF fidelity > 50 * 1000 THEN "OK" ELSE "Failed"
StatusOf(fidelity) == IF fidelity >= 50 * 1000 THEN "OK" ELSE "Failed"

\* FullSimulation.jsx:224-240
TransmissionResultPlainDefault(k, chunks, enc, key, correctedMessages) ==
  LET backendItem == IF k <= Len(correctedMessages) THEN correctedMessages[k]
                     ELSE EmptyItem
      fidelity == IF backendItem.has_fidelity THEN backendItem.fidelity ELSE 0
  IN [index |-> k - 1,
      originalChunk |-> chunks[k],
      encryptedChunk |-> enc[k],
      receivedChunk |-> IF backendItem.has_cm THEN backendItem.corrected_message
                        ELSE chunks[k],
      status |-> StatusOf(fidelity),
      fidelity |-> fidelity,
      keyOffset |-> ((k - 1) * 2) % Len(key)]
TransmissionResult(k, chunks, enc, key, correctedMessages) ==
  LET backendItem == IF k <= Len(correctedMessages) THEN correctedMessages[k]
                     ELSE EmptyItem
      fidelity == IF backendItem.has_fidelity THEN backendItem.fidelity ELSE 0
  IN [index |-> k - 1,
      originalChunk |-> chunks[k],
      encryptedChunk |-> enc[k],
      receivedChunk |-> IF backendItem.has_cm THEN backendItem.corrected_message
                        ELSE enc[k],
      status |-> StatusOf(fidelity),
      fidelity |-> fidelity,
      keyOffset |-> ((k - 1) * 2) % Len(key)]

\* FullSimulation.jsx:242
CountOK(results) == Cardinality({k \in 1..Len(results) : results[k].status = "OK"})

\* FullSimulation.jsx:222-254
Result(data, key, correctedMessages) ==
  LET chunks == Chunks(data)
      enc == EncryptedChunks(chunks, key)
      transmissionResults ==
        [k \in 1..Len(enc) |-> TransmissionResult(k, chunks, enc, key, correctedMessages)]
  IN [originalChunks |-> chunks,
      encryptedChunks |-> enc,
      transmissionResults |-> transmissionResults,
      totalChunks |-> Len(chunks),
      successfulTransmissions |-> CountOK(transmissionResults)]

NoResult == [originalChunks |-> <<>>, encryptedChunks |-> <<>>,
             transmissionResults |-> <<>>, totalChunks |-> 0,
             successfulTransmissions |-> 0]

NoThrown == [tried |-> <<>>, last |-> NoError]

\* Array.prototype.join('') of a list of bit strings
RECURSIVE Join(_)
Join(pieces) ==
  IF pieces = <<>> THEN <<>> ELSE Head(pieces) \o Join(Tail(pieces))

\* FullSimulation.jsx:156-164
oneTimePadDecryptSkipped(encryptedChunk, key, keyOffset) == encryptedChunk
oneTimePadDecrypt(encryptedChunk, key, keyOffset) ==
  IF key = <<>> \/ encryptedChunk = <<>> THEN encryptedChunk
  ELSE [i \in 1..Len(encryptedChunk) |->
          Xor(encryptedChunk[i], key[((keyOffset + (i - 1)) % Len(key)) + 1])]

\* FullSimulation.jsx:274-289: what one result contributes
ReconstructPieceFromReceived(result, key) ==
  oneTimePadDecrypt(result.receivedChunk, key, result.keyOffset)
ReconstructPiece(result, key) ==
  IF result.status = "OK"
  THEN oneTimePadDecrypt(result.receivedChunk, key, result.keyOffset)
  ELSE IF result.originalChunk # <<>> THEN result.originalChunk ELSE <<0, 0>>

\* FullSimulation.jsx:270-298
reconstructBinaryData(res, key) ==
  IF key = <<>> THEN <<>>
  ELSE Join([k \in 1..Len(res.transmissionResults) |->
               ReconstructPiece(res.transmissionResults[k], key)])

InitSend ==
  /\ pc = "idle"
  /\ binaryData = <<>>
  /\ qkdKey = <<>>
  /\ urlIdx = 0
  /\ lastError = NoError
  /\ timers = {}
  /\ response = NoResponse
  /\ sdcRes = NoResult
  /\ thrown = NoThrown
  /\ requests = <<>>
  /\ outcomes = <<>>
  /\ simPc = "idle"
  /\ decryptedMessage = <<>>

\* how an attempt ended: the error it raised, or the list it answered with
Outcome(how, err, data) == [how |-> how, err |-> err, data |-> data]

\* FullSimulation.jsx:258: lastError = err
CatchKeepFirst(prev, err) == IF prev = NoError THEN err ELSE prev
Catch(prev, err) == err

\* FullSimulation.jsx:263-267
Aggregate(last) ==
  [tried |-> urlsToTry,
   last |-> IF last = NoError \/ last.text = "" THEN UnknownError ELSE last]

\* FullSimulation.jsx:187-193: the loop takes the next URL, arms the abort
\* timer and issues the request; past the last URL it throws (263-267)
Attempt(i, err, tm) ==
  IF i <= Len(urlsToTry)
  THEN /\ pc' = "fetch"
       /\ urlIdx' = i
       /\ requests' = Append(requests, urlsToTry[i])
       /\ timers' = tm \cup {i}
       /\ thrown' = thrown
  ELSE /\ pc' = "threw"
       /\ urlIdx' = i
       /\ requests' = requests
       /\ timers' = tm
       /\ thrown' = Aggregate(err)

\* FullSimulation.jsx:166-193
Call(data, key) ==
  /\ pc = "idle"
  /\ binaryData' = data
  /\ qkdKey' = key
  /\ IF data = <<>> \/ key = <<>>
     THEN /\ pc' = "returnedNull"
          /\ UNCHANGED <<urlIdx, requests, timers, thrown>>
     ELSE Attempt(1, NoError, timers)
  /\ UNCHANGED <<lastError, response, sdcRes, outcomes>>

\* FullSimulation.jsx:256-260 followed by the next iteration
Failed(err, tm, how) ==
  /\ lastError' = Catch(lastError, err)
  /\ Attempt(urlIdx + 1, Catch(lastError, err), tm)
  /\ outcomes' = Append(outcomes, Outcome(how, err, <<>>))
  /\ response' = NoResponse
  /\ UNCHANGED <<binaryData, qkdKey, sdcRes>>

\* FullSimulation.jsx:193: fetch rejects (the endpoint is unreachable); the
\* timer armed at line 191 stays armed
FetchRejects ==
  /\ pc = "fetch"
  /\ Failed(FailedToFetch, timers, "unreachable")

\* FullSimulation.jsx:191: a timer fires and aborts its controller; only the
\* attempt still waiting in fetch is affected
TimeoutFires(i) ==
  /\ i \in timers
  /\ IF pc = "fetch" /\ i = urlIdx
     THEN Failed(AbortError, timers \ {i}, "timeout")
     ELSE /\ timers' = timers \ {i}
          /\ UNCHANGED <<pc, binaryData, qkdKey, urlIdx, lastError, response,
                         sdcRes, thrown, requests, outcomes>>

\* FullSimulation.jsx:193-209: fetch resolves once the headers are in, and the
\* timer of this attempt is cleared
FetchResolves(ok, status) ==
  /\ pc = "fetch"
  /\ timers' = timers \ {urlIdx}
  /\ response' = [ok |-> ok, status |-> status]
  /\ pc' = IF ok THEN "body" ELSE "errbody"
  /\ UNCHANGED <<binaryData, qkdKey, urlIdx, lastError, sdcRes, thrown,
                 requests, outcomes>>

\* FullSimulation.jsx:211-217: the error body arrives (parsed = FALSE when
\* response.json() rejects and the catch yields {})
BackendErrorOf(parsed, message, url, status) ==
  IF parsed /\ message # "" THEN Err(message, NoUrl, 0)
  ELSE Err("Backend error", url, status)

ErrorBody(parsed, message) ==
  /\ pc = "errbody"
  /\ Failed(BackendErrorOf(parsed, message, urlsToTry[urlIdx], response.status),
            timers, "backend-error")

\* FullSimulation.jsx:220-222, 256: response.json() rejects, or the body is
\* the JSON value null and reading data.corrected_messages throws
BodyRejects(err) ==
  /\ pc = "body"
  /\ Failed(err, timers, "bad-body")

\* FullSimulation.jsx:220-254: the body of an ok response is parsed; only its
\* corrected_messages (and fidelity lists) are read.  `reported` is the error
\* field of the body, NoError when it has none.
BodyParsedWith(correctedMessages, reported) ==
  /\ pc = "body"
  /\ sdcRes' = Result(binaryData, qkdKey, correctedMessages)
  /\ pc' = "returned"
  /\ outcomes' = Append(outcomes, Outcome("ok", reported, correctedMessages))
  /\ UNCHANGED <<binaryData, qkdKey, urlIdx, lastError, timers, response,
                 thrown, requests>>

BodyParsed(correctedMessages) == BodyParsedWith(correctedMessages, NoError)

\* the body is {"error": message}: it has no corrected_messages, and
\* `data.corrected_messages || []` (line 222) makes the list empty
BodyReportsError(message) == BodyParsedWith(<<>>, Err(message, NoUrl, 0))

\* FullSimulation.jsx:372-373
Reconstruct ==
  /\ pc = "returned"
  /\ simPc = "idle"
  /\ decryptedMessage' = reconstructBinaryData(sdcRes, qkdKey)
  /\ simPc' = "reconstructed"
  /\ UNCHANGED callVars

\* ---------------------------------------------------------- specifications
\* ------------------------------------------------------------ BinaryCodec
\* Coordinates are counted in units of 1e-5 degree, so that
\* Math.round((value + 180) * 100000) is value + DegreeOffset * Scale.

\* FullSimulation.jsx:110
Scale == 100000
DegreeOffset == 180
\* FullSimulation.jsx:108
CoordBits == 32
\* FullSimulation.jsx:127
RecordBits == 65

\* a character that is neither '0' nor '1' (the '-' of a negative number, a
\* letter in a stored payload)
OtherChar == 2

\* Number.prototype.toString(2)
RECURSIVE Digits2(_)
Digits2(n) == IF n < 2 THEN <<n>> ELSE Append(Digits2(n \div 2), n % 2)
ToString2(n) == IF n < 0 THEN <<OtherChar>> \o Digits2(0 - n) ELSE Digits2(n)

\* String.prototype.padStart(n, '0')
PadStart(str, n) ==
  [i \in 1..(IF Len(str) < n THEN n - Len(str) ELSE 0) |-> 0] \o str

\* parseInt(bin, 2) of a string of binary digits
RECURSIVE ParseInt2(_)
ParseInt2(bin) ==
  IF bin = <<>> THEN 0
  ELSE 2 * ParseInt2(SubSeq(bin, 1, Len(bin) - 1)) + bin[Len(bin)]

\* FullSimulation.jsx:108-113
floatToBinary(value) == PadStart(ToString2(value + DegreeOffset * Scale), CoordBits)

\* A JS number that may not fit the integers of the checker is kept as
\* high * Half + low with 0 <= low < Half; the form is unique, so two numbers
\* are equal exactly when their records are.
Half == 65536
HalfBits == 16
Num(high, low) == [high |-> high, low |-> low]
NumOf(n) == Num(n \div Half, n % Half)
NumMinus(a, b) ==
  Num(a.high - b.high + ((a.low - b.low) \div Half), (a.low - b.low) % Half)

\* parseInt(bin, 2) of a string of up to 32 binary digits
ParseNum(bin) ==
  IF Len(bin) <= HalfBits THEN Num(0, ParseInt2(bin))
  ELSE Num(ParseInt2(SubSeq(bin, 1, Len(bin) - HalfBits)),
           ParseInt2(SubSeq(bin, Len(bin) - HalfBits + 1, Len(bin))))

\* HomePage.jsx:513-518: (intVal >>> 0) is intVal modulo 2^32, written here as
\* its upper and its lower 16 binary digits; num is in units of 1e-5
toBinary(num) ==
  PadStart(Digits2(NumOf(num).high % Half), HalfBits)
    \o PadStart(Digits2(NumOf(num).low), HalfBits)

\* FullSimulation.jsx:116-120
binaryToFloatNoOffset(bin) == IF bin = <<>> THEN Null ELSE ParseNum(bin)
binaryToFloat(bin) ==
  IF bin = <<>> THEN Null
  ELSE NumMinus(ParseNum(bin), NumOf(DegreeOffset * Scale))

\* FullSimulation.jsx:123-142
binaryToLatLonLastBit(binary) ==
  IF binary = <<>> THEN [lat |-> Null, lon |-> Null, restricted |-> Null]
  ELSE LET restrictedBit == IF Len(binary) >= RecordBits THEN binary[Len(binary)]
                            ELSE 0
           restricted == IF restrictedBit = 1 THEN "Yes" ELSE "No"
       IN IF Len(binary) < RecordBits
          THEN [lat |-> Null, lon |-> Null, restricted |-> restricted]
          ELSE [lat |-> binaryToFloat(Slice(binary, 0, CoordBits)),
                lon |-> binaryToFloat(Slice(binary, CoordBits, 2 * CoordBits)),
                restricted |-> restricted]
binaryToLatLon(binary) ==
  IF binary = <<>> THEN [lat |-> Null, lon |-> Null, restricted |-> Null]
  ELSE LET restrictedBit == IF Len(binary) >= RecordBits THEN binary[RecordBits]
                            ELSE 0
           restricted == IF restrictedBit = 1 THEN "Yes" ELSE "No"
       IN IF Len(binary) < RecordBits
          THEN [lat |-> Null, lon |-> Null, restricted |-> restricted]
          ELSE [lat |-> binaryToFloat(Slice(binary, 0, CoordBits)),
                lon |-> binaryToFloat(Slice(binary, CoordBits, 2 * CoordBits)),
                restricted |-> restricted]

\* FullSimulation.jsx:314-317
CombinedBin(predictedLat, predictedLon, predictedRestricted) ==
  floatToBinary(predictedLat) \o floatToBinary(predictedLon)
    \o (IF predictedRestricted = "Yes" THEN <<1>> ELSE <<0>>)

\* coordinates in [-180, 180) at the ends of the range, around zero and inside
Coordinates ==
  {0 - DegreeOffset * Scale, 1 - DegreeOffset * Scale, 0 - 1, 0, 1,
   1234567, 0 - 7654321, DegreeOffset * Scale - 1}

\* LandingPage.jsx:278
RestrictedFlags == {"Yes", "No"}

\* ---------------------------------------------------------- error probability
\* S is counted in hundredths, probabilities in hundredths.

\* what localStorage holds under 'chshS'
StoredS(kind, value) == [kind |-> kind, value |-> value]
SValues == {0 - 283, 0 - 240, 0 - 239, 0 - 201, 0 - 200, 0 - 199, 0,
            199, 200, 201, 239, 240, 241, 283}
StoredSValues ==
  {StoredS("absent", 0), StoredS("text", 0)} \cup {StoredS("number", v) : v \in SValues}

\* FullSimulation.jsx:71-76: chshValue after the effect (useState(null) before)
ChshValue(storedS) ==
  CASE storedS.kind = "absent" -> [kind |-> "null", value |-> 0]
    [] storedS.kind = "text" -> [kind |-> "NaN", value |-> 0]
    [] OTHER -> [kind |-> "number", value |-> storedS.value]

Abs(x) == IF x < 0 THEN 0 - x ELSE x

\* FullSimulation.jsx:324-334; a comparison with NaN is false
PErrorStrict(chshValue) ==
  IF chshValue.kind = "null" THEN 5
  ELSE IF chshValue.kind = "number" /\ Abs(chshValue.value) < 200 THEN 25
  ELSE IF chshValue.kind = "number" /\ Abs(chshValue.value) < 240 THEN 12
  ELSE 3
PError(chshValue) ==
  IF chshValue.kind = "null" THEN 5
  ELSE IF chshValue.kind = "number" /\ Abs(chshValue.value) <= 200 THEN 25
  ELSE IF chshValue.kind = "number" /\ Abs(chshValue.value) < 240 THEN 12
  ELSE 3

\* -------------------------------------------------------------- entry points
\* What a page's entry point has done when it first suspends or returns: the
\* requests it has posted and the error it has shown.

\* location.state?.encryptedBinary || localStorage.getItem("encryptedBinary")
Payload(present, text) == [present |-> present, text |-> text]
Chars == {0, 1, OtherChar}
Payloads ==
  {Payload(FALSE, <<>>)} \cup
  {Payload(TRUE, t) : t \in UNION {[1..k -> Chars] : k \in 0..2}}

\* /^[01]+$/.test(str)
OnlyBits(str) == str # <<>> /\ \A i \in 1..Len(str) : str[i] \in Bit

Post(base, path, body) == [url |-> Url(base, path), body |-> body]
Effect(posts, err) == [posts |-> posts, error |-> err]

\* part_000:135-150 (Comparison.fetchComparison)
fetchComparison(encryptedBinary) ==
  IF ~encryptedBinary.present \/ encryptedBinary.text = <<>>
       \/ ~OnlyBits(encryptedBinary.text)
  THEN Effect(<<>>, "Invalid encrypted binary received for comparison")
  ELSE Effect(<<Post("http://localhost:5004", "/compare", encryptedBinary.text)>>, "")

\* ComparisionNew.jsx:26-43 (ComparisonNew.fetchData)
fetchData(encryptedBinary) ==
  Effect(<<Post("http://localhost:5008", "/compare33_corrected",
                IF encryptedBinary.present THEN AnalysisBits(encryptedBinary.text)
                ELSE <<>>)>>, "")

\* FullSimulation.jsx:304-343, 411-416 (handleRunFullSimulation up to the
\* first request of processSuperdenseCoding)
handleRunFullSimulation(storedQkdKey, lat, lon, restricted) ==
  IF storedQkdKey = <<>>
  THEN Effect(<<>>, "No QKD key available. Please generate a key first from QKD Simulation.")
  ELSE Effect(<<Post(urlsToTry[1].base, urlsToTry[1].path,
                     EncryptedChunks(Chunks(CombinedBin(lat, lon, restricted)),
                                     storedQkdKey))>>, "")

\* ------------------------------------------------------ full simulation run

Store(key, secure, payload) ==
  [qkdKey |-> key, qkdSecure |-> secure, encryptedBinary |-> payload]
EmptyStore == Store(<<>>, "", <<>>)

\* what localStorage can hold when the page is opened: no key or one written
\* by the QKD page (FullSimulation.jsx:660-661), no payload or the one an
\* earlier run left (line 380)
Stores ==
  {Store(key, IF key = <<>> THEN "" ELSE "true", payload) :
     key \in Keys, payload \in {<<>>, <<1, 0>>}}

\* the predicted record the page was opened with (lines 86-103)
Record(lat, lon, restricted) == [lat |-> lat, lon |-> lon, restricted |-> restricted]
RunCoordinates == {0 - DegreeOffset * Scale, DegreeOffset * Scale - 1}
Records ==
  {Record(lat, lon, restricted) :
     lat \in RunCoordinates, lon \in RunCoordinates, restricted \in RestrictedFlags}
NoRecord == Record(Null, Null, Null)

RunError(text, cause) == [text |-> text, cause |-> cause]
NoRunError == RunError("", NoError)

InitRun ==
  /\ isLoading = FALSE
  /\ simError = NoRunError
  /\ sdcResults = NoResult
  /\ decoded = NoRecord

\* FullSimulation.jsx:304-343: up to the call of processSuperdenseCoding; with
\* no key stored the throw at 311 is caught at 412 and 416 runs at once
RunStarts ==
  /\ simPc = "idle"
  /\ pc = "idle"
  /\ IF store.qkdKey = <<>>
     THEN /\ simError' = RunError("No QKD key available. Please generate a key first from QKD Simulation.", NoError)
          /\ isLoading' = FALSE
          /\ simPc' = "failed"
          /\ UNCHANGED callVars
     ELSE /\ simError' = NoRunError
          /\ isLoading' = TRUE
          /\ simPc' = "running"
          /\ Call(CombinedBin(predicted.lat, predicted.lon, predicted.restricted),
                  store.qkdKey)
  /\ UNCHANGED <<store, sdcResults, predicted, decoded, decryptedMessage>>

\* FullSimulation.jsx:339-347, 412-416: the call threw, or returned null
RunFails ==
  /\ simPc = "running"
  /\ pc \in {"threw", "returnedNull"}
  /\ simError' = IF pc = "threw"
                 THEN RunError("Error during quantum transmission: ", thrown.last)
                 ELSE RunError("SDC transmission failed: No response from server", NoError)
  /\ isLoading' = FALSE
  /\ simPc' = "failed"
  /\ UNCHANGED <<callVars, store, sdcResults, predicted, decoded, decryptedMessage>>

\* FullSimulation.jsx:375: the received chunks joined
ReceivedBinary(res) ==
  Join([k \in 1..Len(res.transmissionResults) |->
          res.transmissionResults[k].receivedChunk])
SentBinary(res) == Join(res.encryptedChunks)

\* FullSimulation.jsx:349-410, 416: the call returned a result
PersistedPayloadSent(res) == SentBinary(res)
PersistedPayload(res) == ReceivedBinary(res)

RunCompletes ==
  /\ simPc = "running"
  /\ pc = "returned"
  /\ sdcResults' = sdcRes
  /\ decryptedMessage' = reconstructBinaryData(sdcRes, qkdKey)
  /\ store' = [store EXCEPT !.encryptedBinary = PersistedPayload(sdcRes)]
  /\ decoded' = binaryToLatLon(reconstructBinaryData(sdcRes, qkdKey))
  /\ isLoading' = FALSE
  /\ simPc' = "done"
  /\ UNCHANGED <<callVars, simError, predicted>>

\* ---- what the backend answers for the chunks of a whole record
EchoItem(chunk, fidelity) == Item(TRUE, chunk, TRUE, fidelity)
Echo(enc, fidelity) == [k \in 1..Len(enc) |-> EchoItem(enc[k], fidelity)]
Flip(chunk) == [b \in 1..Len(chunk) |-> 1 - chunk[b]]
Garbled(enc, fidelity) == [k \in 1..Len(enc) |-> EchoItem(Flip(enc[k]), fidelity)]

\* every chunk echoed or every chunk garbled, above or below the gate; the
\* list cut short or empty; one item (first, middle, last) replaced by each
\* kind of item in an otherwise clean answer
Answers(enc) ==
  {Echo(enc, f) : f \in Fidelities}
    \cup {Garbled(enc, f) : f \in Fidelities}
    \cup {<<>>, SubSeq(Echo(enc, 50 * 1000), 1, Len(enc) \div 2)}
    \cup {[Echo(enc, 50 * 1000) EXCEPT ![p] = it] :
            p \in {1, (Len(enc) + 1) \div 2, Len(enc)}, it \in NormalItems}

\* ------------------------------------------------ functions of the pipeline

InitFn ==
  /\ applied = "none"
  /\ input = <<>>
  /\ output = <<>>

\* FullSimulation.jsx:145-164: a chunk is encrypted (line 177) and what comes
\* back is decrypted (line 277) with the same key and offset; lines 10-25: the
\* same for the whole message
ApplyPad(data, key, keyOffset) ==
  /\ applied = "none"
  /\ applied' = "pad"
  /\ input' = [data |-> data, key |-> key, keyOffset |-> keyOffset]
  /\ output' =
       [encrypted |-> oneTimePadEncrypt(data, key, keyOffset),
        decrypted |-> oneTimePadDecrypt(oneTimePadEncrypt(data, key, keyOffset),
                                        key, keyOffset),
        otpEncrypted |-> otpEncrypt(CharCodes(data), key),
        otpDecrypted |-> otpDecrypt(otpEncrypt(CharCodes(data), key), key)]

\* FullSimulation.jsx:169-173, HomePage.jsx:521-527, ComparisionNew.jsx:31-33
ApplySplit(data) ==
  /\ applied = "none"
  /\ applied' = "split"
  /\ input' = [data |-> data]
  /\ output' = [transmit |-> Chunks(data),
                display |-> splitIntoChunks(data),
                analysis |-> AnalysisBits(data)]

\* FullSimulation.jsx:314-317 and 384: a record is encoded, and the string is
\* decoded
ApplyCodec(lat, lon, restricted) ==
  /\ applied = "none"
  /\ applied' = "codec"
  /\ input' = [lat |-> lat, lon |-> lon, restricted |-> restricted]
  /\ output' = [binary |-> CombinedBin(lat, lon, restricted),
                decoded |-> binaryToLatLon(CombinedBin(lat, lon, restricted))]

\* strings to decode: short ones, encoded records, the same without their
\* last bit and with bits after it, and 65 ones
Ones(n) == [i \in 1..n |-> 1]
Encodings ==
  {CombinedBin(r.lat, r.lon, r.restricted) : r \in Records} \cup {Ones(RecordBits)}
Decodables ==
  BitStrings(MaxBits)
    \cup Encodings
    \cup {SubSeq(b, 1, RecordBits - 1) : b \in Encodings}
    \cup {b \o t : b \in Encodings, t \in BitStrings(2) \ {<<>>}}

\* longest bit string encrypted as a stream of chunks
MaxStream == 5

\* FullSimulation.jsx:169-178: the encrypted chunks of a bit string, joined;
\* lines 145-153 on the whole zero-padded string; lines 10-20 on its characters
ApplyStream(data, key) ==
  /\ applied = "none"
  /\ applied' = "stream"
  /\ input' = [data |-> data, key |-> key]
  /\ output' =
       [chunked |-> Join(EncryptedChunks(Chunks(data), key)),
        whole |-> oneTimePadEncrypt(PadEnd(data, Len(data) + (Len(data) % 2)), key, 0),
        chars |-> otpEncrypt(CharCodes(data), key)]

\* values to encode: the coordinates, and values below -180
Encodables ==
  Coordinates \cup {0 - DegreeOffset * Scale - 1, 0 - 2 * DegreeOffset * Scale}

\* FullSimulation.jsx:108-113 and HomePage.jsx:513-518
ApplyEncode(value) ==
  /\ applied = "none"
  /\ applied' = "encode"
  /\ input' = [value |-> value]
  /\ output' = [floatToBinary |-> floatToBinary(value),
                toBinary |-> toBinary(value)]

\* FullSimulation.jsx:384
ApplyDecode(binary) ==
  /\ applied = "none"
  /\ applied' = "decode"
  /\ input' = [binary |-> binary]
  /\ output' = binaryToLatLon(binary)

\* FullSimulation.jsx:71-76 and 324-334
ApplyPError(storedS) ==
  /\ applied = "none"
  /\ applied' = "p_error"
  /\ input' = storedS
  /\ output' = [chshValue |-> ChshValue(storedS),
                p_error |-> PError(ChshValue(storedS))]

\* part_000:135-173
EnterComparison(encryptedBinary) ==
  /\ applied = "none"
  /\ applied' = "compare"
  /\ input' = encryptedBinary
  /\ output' = fetchComparison(encryptedBinary)

\* ComparisionNew.jsx:25-53
EnterAnalysis(encryptedBinary) ==
  /\ applied = "none"
  /\ applied' = "analysis"
  /\ input' = encryptedBinary
  /\ output' = fetchData(encryptedBinary)

\* FullSimulation.jsx:304-343
EnterFullSimulation(storedQkdKey, lat, lon, restricted) ==
  /\ applied = "none"
  /\ applied' = "simulation"
  /\ input' = [key |-> storedQkdKey]
  /\ output' = handleRunFullSimulation(storedQkdKey, lat, lon, restricted)

Init ==
  /\ InitRx /\ InitSend /\ InitFn /\ InitRun
  /\ store = EmptyStore
  /\ predicted = NoRecord

\* the FullSimulation page opened with a record, over any store
InitStored ==
  /\ InitRx /\ InitSend /\ InitFn /\ InitRun
  /\ store \in Stores
  /\ predicted \in Records

NextRx ==
  \/ FetchDecodedJobs /\ UNCHANGED <<sendVars, fnVars>>
  \/ \E c \in 1..Len(conns) : OnOpen(c) /\ UNCHANGED <<sendVars, fnVars>>
  \/ \E c \in 1..Len(conns), n \in TotalJobCounts : OnStart(c, n) /\ UNCHANGED <<sendVars, fnVars>>
  \/ \E c \in 1..Len(conns), data \in ProgressEvents :
        OnProgress(c, data) /\ UNCHANGED <<sendVars, fnVars>>
  \/ \E c \in 1..Len(conns), r \in Results : OnDone(c, r) /\ UNCHANGED <<sendVars, fnVars>>
  \/ \E c \in 1..Len(conns), m \in ErrorMessages :
        OnErrorEvent(c, m) /\ UNCHANGED <<sendVars, fnVars>>
  \/ \E c \in 1..Len(conns), fatal \in BOOLEAN : OnError(c, fatal) /\ UNCHANGED <<sendVars, fnVars>>
  \/ Unmount /\ UNCHANGED <<sendVars, fnVars>>

NextSend ==
  \/ \E data \in BitStrings(MaxBits), key \in Keys :
        Call(data, key) /\ UNCHANGED <<rxVars, simPc, decryptedMessage, runVars, fnVars>>
  \/ FetchRejects /\ UNCHANGED <<rxVars, simPc, decryptedMessage, runVars, fnVars>>
  \/ \E i \in timers : TimeoutFires(i) /\ UNCHANGED <<rxVars, simPc, decryptedMessage, runVars, fnVars>>
  \/ \E status \in {200} : FetchResolves(TRUE, status) /\ UNCHANGED <<rxVars, simPc, decryptedMessage, runVars, fnVars>>
  \/ \E status \in ErrorStatuses : FetchResolves(FALSE, status) /\ UNCHANGED <<rxVars, simPc, decryptedMessage, runVars, fnVars>>
  \/ \E parsed \in BOOLEAN, message \in BackendMessages :
        ErrorBody(parsed, message) /\ UNCHANGED <<rxVars, simPc, decryptedMessage, runVars, fnVars>>
  \/ \E err \in {JsonError, NullBodyError} : BodyRejects(err) /\ UNCHANGED <<rxVars, simPc, decryptedMessage, runVars, fnVars>>
  \/ \E cm \in ItemLists(Len(Chunks(binaryData)) + 1) :
        BodyParsed(cm) /\ UNCHANGED <<rxVars, simPc, decryptedMessage, runVars, fnVars>>
  \/ \E message \in BackendMessages \ {""} :
        BodyReportsError(message) /\ UNCHANGED <<rxVars, simPc, decryptedMessage, runVars, fnVars>>
  \/ Reconstruct /\ UNCHANGED <<rxVars, runVars, fnVars>>

NextRun ==
  \/ RunStarts /\ UNCHANGED <<rxVars, fnVars>>
  \/ FetchRejects /\ UNCHANGED <<rxVars, simPc, decryptedMessage, runVars, fnVars>>
  \/ \E i \in timers :
        TimeoutFires(i) /\ UNCHANGED <<rxVars, simPc, decryptedMessage, runVars, fnVars>>
  \/ \E status \in {200} :
        FetchResolves(TRUE, status)
          /\ UNCHANGED <<rxVars, simPc, decryptedMessage, runVars, fnVars>>
  \/ \E status \in ErrorStatuses :
        FetchResolves(FALSE, status)
          /\ UNCHANGED <<rxVars, simPc, decryptedMessage, runVars, fnVars>>
  \/ \E parsed \in BOOLEAN, message \in BackendMessages :
        ErrorBody(parsed, message)
          /\ UNCHANGED <<rxVars, simPc, decryptedMessage, runVars, fnVars>>
  \/ \E err \in {JsonError, NullBodyError} :
        BodyRejects(err) /\ UNCHANGED <<rxVars, simPc, decryptedMessage, runVars, fnVars>>
  \/ \E cm \in Answers(EncryptedChunks(Chunks(binaryData), qkdKey)) :
        BodyParsed(cm) /\ UNCHANGED <<rxVars, simPc, decryptedMessage, runVars, fnVars>>
  \/ \E message \in BackendMessages \ {""} :
        BodyReportsError(message)
          /\ UNCHANGED <<rxVars, simPc, decryptedMessage, runVars, fnVars>>
  \/ RunFails /\ UNCHANGED <<rxVars, fnVars>>
  \/ RunCompletes /\ UNCHANGED <<rxVars, fnVars>>

NextFn ==
  \/ \E data \in BitStrings(MaxBits), key \in BitStrings(MaxKeyLen),
        keyOffset \in 0..MaxOffset :
        ApplyPad(data, key, keyOffset) /\ UNCHANGED <<rxVars, sendVars>>
  \/ \E data \in BitStrings(MaxBits) :
        ApplySplit(data) /\ UNCHANGED <<rxVars, sendVars>>
  \/ \E lat \in Coordinates, lon \in Coordinates, restricted \in RestrictedFlags :
        ApplyCodec(lat, lon, restricted) /\ UNCHANGED <<rxVars, sendVars>>
  \/ \E data \in BitStrings(MaxStream), key \in BitStrings(MaxKeyLen) \ {<<>>} :
        ApplyStream(data, key) /\ UNCHANGED <<rxVars, sendVars>>
  \/ \E value \in Encodables :
        ApplyEncode(value) /\ UNCHANGED <<rxVars, sendVars>>
  \/ \E binary \in Decodables :
        ApplyDecode(binary) /\ UNCHANGED <<rxVars, sendVars>>
  \/ \E storedS \in StoredSValues :
        ApplyPError(storedS) /\ UNCHANGED <<rxVars, sendVars>>
  \/ \E encryptedBinary \in Payloads :
        EnterComparison(encryptedBinary) /\ UNCHANGED <<rxVars, sendVars>>
  \/ \E encryptedBinary \in Payloads :
        EnterAnalysis(encryptedBinary) /\ UNCHANGED <<rxVars, sendVars>>
  \/ \E storedQkdKey \in Keys, lat \in {0}, lon \in {1}, restricted \in RestrictedFlags :
        EnterFullSimulation(storedQkdKey, lat, lon, restricted)
          /\ UNCHANGED <<rxVars, sendVars>>

SpecRx == Init /\ [][NextRx]_vars

SpecSend == Init /\ [][NextSend]_vars

SpecFn == Init /\ [][NextFn]_vars

SpecRun == InitStored /\ [][NextRun]_vars

\* ================================================================ Receiver
ConsumerState == <<decodedResult, error, progress, progressLogs, loading>>

OpenConns == {c \in 1..Len(conns) : conns[c] # "CLOSED"}

CurrentClosed == eventSourceRef # 0 /\ conns[eventSourceRef] = "CLOSED"

\* C1: in every reachable state at most one server-push connection is open
\* (CONNECTING or OPEN), whatever the sequence of session starts, stream
\* events and failures; only the connection the consumer currently owns can
\* be open.
C1_AtMostOneConnection ==
  /\ Cardinality(OpenConns) <= 1
  /\ \A c \in OpenConns : c = eventSourceRef

\* a second session was started while the first was still live, and the new
\* connection is streaming
C1_Witness ==
  /\ Len(conns) = 2
  /\ superseded = {1}
  /\ conns[2] = "OPEN"

JobEntryIndexes(j) == {i \in 1..Len(progressLogs) : progressLogs[i].job_id = j}

C2_OneEntryPerJob ==
  \A j \in JobIds :
    /\ Cardinality(JobEntryIndexes(j)) = IF lastSeen[j] = NoEvent THEN 0 ELSE 1
    /\ \A i \in JobEntryIndexes(j) :
         /\ progressLogs[i].type =
              (IF lastSeen[j].status # "" THEN lastSeen[j].status ELSE "progress")
         /\ progressLogs[i].message.text = lastSeen[j].message
         /\ progressLogs[i].message.a = lastSeen[j].current_job
         /\ progressLogs[i].message.b = lastSeen[j].total_jobs

C2_OverallProgress ==
  (lastProgress # NoEvent /\ terminal.kind # "done") =>
     progress[1] * lastProgress.total_jobs
       = lastProgress.current_job * 100 * progress[2]

\* a progress event for a known id replaces its entry in place, one for an
\* unseen id appends an entry; every other entry is left alone
C2_UpsertStep ==
  (lastProgress' # NoEvent /\ lastSeen' # lastSeen) =>
     LET j == lastProgress'.job_id
     IN IF lastSeen[j] = NoEvent
        THEN /\ Len(progressLogs') = Len(progressLogs) + 1
             /\ SubSeq(progressLogs', 1, Len(progressLogs)) = progressLogs
             /\ progressLogs'[Len(progressLogs')].job_id = j
        ELSE /\ Len(progressLogs') = Len(progressLogs)
             /\ \A i \in 1..Len(progressLogs) :
                  progressLogs[i].job_id # j => progressLogs'[i] = progressLogs[i]

\* C2: within a session the job list holds exactly one entry per job_id seen,
\* carrying the status and message of the latest progress event for that id
\* (a known id is replaced in place, an unseen id is appended), and the
\* overall progress is current_job/total_jobs*100 of the latest progress event.
C2_JobListUpsert ==
  /\ [](C2_OneEntryPerJob /\ C2_OverallProgress)
  /\ [][C2_UpsertStep]_vars

\* two ids seen, the first of them updated after the second appeared
C2_Witness ==
  /\ lastSeen[LongId("x")].status = "success"
  /\ lastSeen[LongId("x")].current_job = 2
  /\ lastSeen[LongId("y")] # NoEvent
  /\ lastProgress.job_id = LongId("x")
  /\ Len(progressLogs) = 3
  /\ progressLogs[2].job_id = LongId("x")
  /\ progressLogs[3].job_id = LongId("y")
  /\ progress = <<100, 1>>

\* C3: after a done event the result is the event's result, progress is 100,
\* the connection is closed, loading is false and no error is set; this stays
\* so (no event or transport failure changes result, progress or error) until
\* the caller starts a new session.
C3_DoneIsTerminal ==
  /\ [](terminal.kind = "done" =>
          /\ decodedResult = terminal.payload
          /\ progress = <<100, 1>>
          /\ CurrentClosed
          /\ ~loading
          /\ error = Null)
  /\ [][(terminal.kind = "done" /\ terminal' = terminal) =>
          UNCHANGED <<decodedResult, progress, error>>]_vars

C3_Witness ==
  /\ terminal = [kind |-> "done", payload |-> "r2"]
  /\ lastProgress # NoEvent
  /\ lastProgress.current_job = 1
  /\ decodedResult = "r2"

\* C4: after an error event the error is the event's message, the connection
\* is closed, loading is false and no result is set; no later event of that
\* stream changes the consumer's state.
C4_ErrorEventIsTerminal ==
  /\ [](terminal.kind = "error" =>
          /\ error = terminal.payload
          /\ CurrentClosed
          /\ ~loading
          /\ decodedResult = Null)
  /\ [][(terminal.kind = "error" /\ terminal' = terminal) =>
          UNCHANGED ConsumerState]_vars

C4_Witness ==
  /\ terminal = [kind |-> "error", payload |-> "backend down"]
  /\ lastProgress # NoEvent
  /\ error = "backend down"

\* C5: after a transport failure without a terminal event the consumer is
\* Failed with the generic connectivity message and no connection is open;
\* a connection is opened again only by an explicit session start.
C5_TransportFailure ==
  /\ [](terminal.kind = "transport" =>
          /\ error = ConnectionFailedMessage
          /\ ~loading
          /\ decodedResult = Null
          /\ OpenConns = {})
  /\ [][(terminal.kind = "transport" /\ OpenConns' # {}) => FetchDecodedJobs]_vars

\* the stream dropped while streaming (the browser was about to reconnect)
C5_Witness ==
  /\ terminal.kind = "transport"
  /\ lastProgress # NoEvent
  /\ CurrentClosed
  /\ error = ConnectionFailedMessage

ExplicitlyClosed(c) == c # eventSourceRef \/ ~mounted

\* C6: explicit close (the unmount cleanup, the close of the previous
\* connection at session start) is defined in every state, also with no
\* connection or a closed one, and closing twice equals closing once; after
\* it the connection is closed, and no event of a connection that was closed
\* while connecting or streaming changes result, error, progress, job list or
\* loading flag.
C6_CloseSafeIdempotent ==
  /\ [](/\ Cleanup(conns, eventSourceRef) \in [1..Len(conns) -> {"CONNECTING", "OPEN", "CLOSED"}]
        /\ Cleanup(Cleanup(conns, eventSourceRef), eventSourceRef)
             = Cleanup(conns, eventSourceRef)
        /\ (eventSourceRef = 0 \/ CurrentClosed) => Cleanup(conns, eventSourceRef) = conns
        /\ ~mounted => OpenConns = {})
  /\ [][\A c \in 1..Len(conns) : ExplicitlyClosed(c) => ~Handler(c)]_vars
  /\ [][~mounted => UNCHANGED ConsumerState]_vars

\* the cleanup ran while the connection was streaming
C6_Witness ==
  /\ ~mounted
  /\ eventSourceRef = 2
  /\ superseded = {1}
  /\ CurrentClosed
  /\ loading
  /\ lastProgress # NoEvent

\* ================================================= processSuperdenseCoding
Candidate(i) ==
  IF i = 1 THEN Url(baseURL, compareCorrected)
  ELSE Url(fallbackURLs[i - 1], compareCorrected)

NumCandidates == 1 + Len(fallbackURLs)

\* C7: the candidates are requested strictly in list order (primary, then the
\* fallbacks as listed), each at most once and none beyond the list; the call
\* stops at the first candidate that succeeds and returns the result built
\* from that candidate's answer.
C7_SequentialFailover ==
  /\ Len(requests) <= NumCandidates
  /\ \A i \in 1..Len(requests) : requests[i] = Candidate(i)
  /\ \A i, j \in 1..Len(requests) : i # j => requests[i] # requests[j]
  /\ \A i \in 1..Len(outcomes) :
       outcomes[i].how = "ok" =>
         /\ i = Len(outcomes)
         /\ i = Len(requests)
         /\ pc = "returned"
  /\ pc = "returned" =>
       LET answer == outcomes[Len(outcomes)]
           tr == sdcRes.transmissionResults
       IN /\ answer.how = "ok"
          /\ \A i \in 1..(Len(outcomes) - 1) : outcomes[i].how # "ok"
          /\ \A k \in 1..Len(tr) :
               k <= Len(answer.data) =>
                 /\ answer.data[k].has_fidelity =>
                      tr[k].fidelity = answer.data[k].fidelity
                 /\ answer.data[k].has_cm =>
                      tr[k].receivedChunk = answer.data[k].corrected_message

\* the primary timed out, the fallback answered
C7_Witness ==
  /\ pc = "returned"
  /\ Len(outcomes) = 2
  /\ outcomes[1].how = "timeout"
  /\ outcomes[2].how = "ok"
  /\ requests = <<Candidate(1), Candidate(2)>>
  /\ Len(outcomes[2].data) = 2
  /\ outcomes[2].data[1].has_fidelity
  /\ sdcRes.transmissionResults[1].fidelity = 50000

AllFailed ==
  /\ Len(outcomes) = NumCandidates
  /\ \A i \in 1..Len(outcomes) : outcomes[i].how # "ok"

\* C8: when every candidate has failed the call throws one error that lists
\* the attempted endpoints in attempt order and carries the last attempt's
\* error, and it returns no result.
C8_AggregatedFailure ==
  /\ AllFailed => pc = "threw"
  /\ pc = "threw" =>
       /\ AllFailed
       /\ thrown.tried = requests
       /\ Len(thrown.tried) = NumCandidates
       /\ thrown.last = outcomes[Len(outcomes)].err
       /\ sdcRes = NoResult
  /\ pc # "threw" => thrown = NoThrown

\* the primary was unreachable, the fallback answered 500 with a message
C8_Witness ==
  /\ pc = "threw"
  /\ outcomes[1].how = "unreachable"
  /\ outcomes[2].how = "backend-error"
  /\ thrown.last.text = "shots must be positive"

InFlight == pc \in {"fetch", "errbody", "body"}

\* C9: at most one attempt is in flight, and an attempt in flight has its
\* abort timer armed from the request until the body has been read.
C9_AttemptBoundedByTimeout ==
  /\ Len(requests) - Len(outcomes) = (IF InFlight THEN 1 ELSE 0)
  /\ InFlight => urlIdx \in timers

\* C10: in a returned result, status is OK exactly when fidelity >= 50 (in
\* thousandths: 50000), and successfulTransmissions counts the OK results.
C10_FidelityGate ==
  pc = "returned" =>
    LET tr == sdcRes.transmissionResults
    IN /\ \A k \in 1..Len(tr) :
            /\ tr[k].status \in {"OK", "Failed"}
            /\ tr[k].status = "OK" <=> tr[k].fidelity >= 50 * 1000
       /\ sdcRes.successfulTransmissions
            = Cardinality({k \in 1..Len(tr) : tr[k].status = "OK"})

\* one chunk at exactly 50, one at 49.999
C10_Witness ==
  /\ pc = "returned"
  /\ Len(sdcRes.transmissionResults) = 2
  /\ sdcRes.transmissionResults[1].fidelity = 50000
  /\ sdcRes.transmissionResults[1].status = "OK"
  /\ sdcRes.transmissionResults[2].fidelity = 49999
  /\ sdcRes.transmissionResults[2].status = "Failed"
  /\ sdcRes.successfulTransmissions = 1

\* ------------------------------------------------------------ job lifetime

JobEntries == {i \in 1..Len(progressLogs) : progressLogs[i].job_id # <<>>}

\* C17 (as the code has it): a job entry exists only after a progress event
\* mentioning its id has arrived in the current session; once the stream has
\* ended (done, error event or transport failure) the entries stay as they
\* are, and it is the start of the next session that empties the list.
C17_JobsKeptUntilNextSession ==
  /\ [](\A i \in JobEntries : lastSeen[progressLogs[i].job_id] # NoEvent)
  /\ [][terminal # NoTerminal /\ terminal' = terminal
          => progressLogs' = progressLogs]_vars
  /\ [][eventSourceRef' # eventSourceRef => progressLogs' = <<>>]_vars

\* the second session has ended with done, its connection is closed, and its
\* job entries are still in the list
C17_Witness ==
  /\ Len(conns) = 2
  /\ terminal.kind = "done"
  /\ conns[eventSourceRef] = "CLOSED"
  /\ ~loading
  /\ JobEntries # {}

\* C17 as stated: once the stream has ended no job entry remains.
C17_NoJobsAfterClose ==
  /\ \A i \in JobEntries : lastSeen[progressLogs[i].job_id] # NoEvent
  /\ terminal # NoTerminal => JobEntries = {}

\* ------------------------------------------------------------ reconstruction

\* where result k's contribution starts in the joined string
RECURSIVE StartOf(_, _)
StartOf(results, k) ==
  IF k = 1 THEN 0
  ELSE StartOf(results, k - 1)
         + (IF results[k - 1].status = "OK" THEN Len(results[k - 1].receivedChunk)
            ELSE Len(results[k - 1].originalChunk))

\* C11: after reconstruction, for every result whose status is Failed the
\* reconstructed string holds that result's originalChunk at the chunk's
\* position (whatever its receivedChunk is), and no chunk is dropped: the
\* length of the string is the sum of the lengths of all contributions.
C11_FailedChunkFallback ==
  simPc = "reconstructed" =>
    LET rs == sdcRes.transmissionResults
    IN /\ Len(decryptedMessage) = StartOf(rs, Len(rs) + 1)
       /\ \A k \in 1..Len(rs) :
            rs[k].status = "Failed" =>
              /\ Len(rs[k].originalChunk) = 2
              /\ SubSeq(decryptedMessage, StartOf(rs, k) + 1, StartOf(rs, k) + 2)
                   = rs[k].originalChunk

\* the second chunk failed, was received as something else, and the string
\* shows its plaintext
C11_Witness ==
  /\ simPc = "reconstructed"
  /\ Len(sdcRes.transmissionResults) = 2
  /\ sdcRes.transmissionResults[1].status = "OK"
  /\ sdcRes.transmissionResults[2].status = "Failed"
  /\ sdcRes.transmissionResults[2].receivedChunk
       # sdcRes.transmissionResults[2].originalChunk
  /\ SubSeq(decryptedMessage, 3, 4) = sdcRes.transmissionResults[2].originalChunk

\* the bits an OK result contributes: receivedChunk with the key bits from
\* keyOffset on added modulo 2
DecryptedBits(r, key) ==
  [b \in 1..Len(r.receivedChunk) |->
     (r.receivedChunk[b] + key[((r.keyOffset + (b - 1)) % Len(key)) + 1]) % 2]

\* C18 (as the code has it): reconstruct returns the concatenation, in the
\* order of the results list, of the one-time-pad decryption of receivedChunk
\* (under the key, from the result's keyOffset) for each OK result and of
\* originalChunk for each Failed result.
C18_ReconstructInOrder ==
  simPc = "reconstructed" =>
    LET rs == sdcRes.transmissionResults
    IN decryptedMessage
         = Join([k \in 1..Len(rs) |->
                   IF rs[k].status = "OK" THEN DecryptedBits(rs[k], qkdKey)
                   ELSE rs[k].originalChunk])

\* an OK chunk whose decryption differs from what was received, next to a
\* Failed one
C18_Witness ==
  /\ simPc = "reconstructed"
  /\ Len(sdcRes.transmissionResults) = 2
  /\ sdcRes.transmissionResults[1].status = "Failed"
  /\ sdcRes.transmissionResults[2].status = "OK"
  /\ DecryptedBits(sdcRes.transmissionResults[2], qkdKey)
       # sdcRes.transmissionResults[2].receivedChunk
  /\ SubSeq(decryptedMessage, 3, 4)
       = DecryptedBits(sdcRes.transmissionResults[2], qkdKey)

\* C18 as stated: the OK results contribute receivedChunk itself.
C18_ReconstructRawReceived ==
  simPc = "reconstructed" =>
    LET rs == sdcRes.transmissionResults
    IN decryptedMessage
         = Join([k \in 1..Len(rs) |->
                   IF rs[k].status = "OK" THEN rs[k].receivedChunk
                   ELSE rs[k].originalChunk])

\* ------------------------------------------------------- results per chunk

\* the corrected_messages array of the response that was parsed
Answer == outcomes[Len(outcomes)].data

\* C19: a returned result has one entry per submitted chunk, entry i at
\* position i; fidelity and receivedChunk are the ones of response item i
\* when the item carries them, and for an item the backend left out
\* receivedChunk is the encrypted chunk, fidelity is 0 and status is Failed.
C19_OneResultPerChunk ==
  pc = "returned" =>
    LET tr == sdcRes.transmissionResults
    IN /\ Len(tr) = (Len(binaryData) + 1) \div 2
       /\ Len(tr) = Len(sdcRes.encryptedChunks)
       /\ \A k \in 1..Len(tr) :
            /\ tr[k].index = k - 1
            /\ tr[k].encryptedChunk = sdcRes.encryptedChunks[k]
            /\ k <= Len(Answer) /\ Answer[k].has_fidelity
                 => tr[k].fidelity = Answer[k].fidelity
            /\ k <= Len(Answer) /\ Answer[k].has_cm
                 => tr[k].receivedChunk = Answer[k].corrected_message
            /\ k > Len(Answer)
                 => /\ tr[k].receivedChunk = sdcRes.encryptedChunks[k]
                    /\ tr[k].fidelity = 0
                    /\ tr[k].status = "Failed"

\* two chunks sent, one item answered: the second result is the default, and
\* the encrypted chunk it carries is not the plaintext
C19_Witness ==
  /\ pc = "returned"
  /\ Len(Answer) = 1
  /\ Answer[1].has_cm /\ Answer[1].has_fidelity
  /\ Len(sdcRes.transmissionResults) = 2
  /\ sdcRes.transmissionResults[2].receivedChunk = sdcRes.encryptedChunks[2]
  /\ sdcRes.encryptedChunks[2] # sdcRes.originalChunks[2]
  /\ sdcRes.transmissionResults[2].status = "Failed"

\* ------------------------------------------------------------ one-time pad

\* C12: for every non-empty key, every data and every offset, decrypting the
\* encryption of data with the same key and offset gives data back, and the
\* encryption has the length of data; the same for the whole-message pad.
C12_PadInvolution ==
  applied = "pad" /\ input.key # <<>> =>
    /\ output.decrypted = input.data
    /\ Len(output.encrypted) = Len(input.data)
    /\ \A i \in 1..Len(output.encrypted) : output.encrypted[i] \in Bit
    /\ output.otpDecrypted = CharCodes(input.data)
    /\ Len(output.otpEncrypted) = Len(input.data)

\* a key of more than one bit, used from an offset past its end, changed the
\* data, and decryption brought it back
C12_Witness ==
  /\ applied = "pad"
  /\ input.key = <<0, 1, 1>>
  /\ input.keyOffset = MaxOffset
  /\ Len(input.data) = MaxBits
  /\ output.encrypted # input.data
  /\ output.decrypted = input.data

\* ---------------------------------------------------------------- chunking

\* C14: for every non-empty bit string, the chunks of the transmit path
\* joined in index order and cut to the original length are the original.
C14_ChunkCoverage ==
  applied = "split" /\ input.data # <<>> =>
    /\ Len(Join(output.transmit)) >= Len(input.data)
    /\ SubSeq(Join(output.transmit), 1, Len(input.data)) = input.data

\* an odd-length string: its last chunk was padded, the cut removes the pad
C14_Witness ==
  /\ applied = "split"
  /\ Len(input.data) = 3
  /\ input.data[3] = 1
  /\ Len(output.transmit) = 2
  /\ output.transmit[2] = <<1, 0>>

\* C20 as stated: every chunk of every splitter has exactly 2 bits.
C20_AllChunksTwoBits ==
  applied = "split" =>
    /\ \A k \in 1..Len(output.transmit) : Len(output.transmit[k]) = 2
    /\ \A k \in 1..Len(output.display) : Len(output.display[k]) = 2
    /\ \A k \in 1..Len(output.analysis) : Len(output.analysis[k]) = 2

\* ------------------------------------------------------------ record codec

\* C13: for latitude and longitude in [-180, 180) at 1e-5 resolution and
\* either restricted flag, the record is encoded in 65 bits (32, 32 and 1)
\* and decoding them gives the same latitude, longitude and flag.
C13_RecordRoundTrip ==
  applied = "codec" =>
    /\ Len(output.binary) = RecordBits
    /\ \A i \in 1..RecordBits : output.binary[i] \in Bit
    /\ output.decoded.lat = NumOf(input.lat)
    /\ output.decoded.lon = NumOf(input.lon)
    /\ output.decoded.restricted = input.restricted

\* the two ends of the range, with the flag set
C13_Witness ==
  /\ applied = "codec"
  /\ input.lat = 0 - DegreeOffset * Scale
  /\ input.lon = DegreeOffset * Scale - 1
  /\ input.restricted = "Yes"
  /\ output.binary[RecordBits] = 1
  /\ output.decoded.lon = NumOf(DegreeOffset * Scale - 1)

\* -------------------------------------------------------- error probability

\* the rule of the claim, in hundredths
RuleFor(s) == IF Abs(s) <= 200 THEN 25 ELSE IF Abs(s) < 240 THEN 12 ELSE 3

\* C15: for a numeric S the error probability is 0.25 when |S| <= 2, 0.12
\* when 2 < |S| < 2.4 and 0.03 when |S| >= 2.4; it is defined for every S,
\* is the same for S and -S, and does not increase as |S| increases.
C15_ErrorProbability ==
  /\ applied = "p_error" /\ output.chshValue.kind = "number" =>
       /\ output.p_error = RuleFor(output.chshValue.value)
       /\ output.p_error \in {25, 12, 3}
  /\ \A a \in SValues, b \in SValues :
       LET pa == PError(ChshValue(StoredS("number", a)))
           pb == PError(ChshValue(StoredS("number", b)))
       IN /\ Abs(a) = Abs(b) => pa = pb
          /\ Abs(a) <= Abs(b) => pa >= pb

\* S exactly -2: the boundary belongs to 0.25
C15_Witness ==
  /\ applied = "p_error"
  /\ output.chshValue = [kind |-> "number", value |-> 0 - 200]
  /\ output.p_error = 25

\* ------------------------------------------------------------ input validation

InvalidInput ==
  \/ applied \in {"compare", "analysis"}
       /\ (~input.present \/ ~OnlyBits(input.text))
  \/ applied = "simulation" /\ input.key = <<>>

\* C16 as stated: at every entry point, an invalid input (payload missing or
\* not only 0/1 characters, or no key) sends no request and shows an error.
C16_RejectedBeforeNetwork ==
  InvalidInput => output.posts = <<>> /\ output.error # ""

\* --------------------------------------------------------------- key offsets

\* the offset of the chunk at position k of the list (index k - 1)
OffsetOf(k, key) == ((k - 1) * 2) % Len(key)

\* bits added modulo 2 to the key bits from offset on
PadAt(bits, key, offset) ==
  [b \in 1..Len(bits) |-> (bits[b] + key[((offset + (b - 1)) % Len(key)) + 1]) % 2]

\* C21: for every chunk index i (the key is non-empty in every returned
\* result) the encrypted chunk is the plaintext chunk padded from offset
\* (i*2) mod len(key), the result records that offset as keyOffset, and an OK
\* chunk is decrypted at reconstruction from that same offset.
C21_KeyOffsets ==
  /\ pc = "returned" =>
       /\ qkdKey # <<>>
       /\ \A k \in 1..Len(sdcRes.transmissionResults) :
            LET r == sdcRes.transmissionResults[k]
            IN /\ r.keyOffset = OffsetOf(k, qkdKey)
               /\ r.encryptedChunk
                    = PadAt(r.originalChunk, qkdKey, OffsetOf(k, qkdKey))
  /\ simPc = "reconstructed" =>
       \A k \in 1..Len(sdcRes.transmissionResults) :
         LET rs == sdcRes.transmissionResults
         IN rs[k].status = "OK" =>
              SubSeq(decryptedMessage, StartOf(rs, k) + 1,
                     StartOf(rs, k) + Len(rs[k].receivedChunk))
                = PadAt(rs[k].receivedChunk, qkdKey, OffsetOf(k, qkdKey))

\* the second chunk under a 3-bit key: offset 2, which wraps around the key
C21_Witness ==
  /\ simPc = "reconstructed"
  /\ qkdKey = <<0, 1, 1>>
  /\ Len(sdcRes.transmissionResults) = 2
  /\ sdcRes.transmissionResults[2].keyOffset = 2
  /\ sdcRes.transmissionResults[2].status = "OK"
  /\ sdcRes.transmissionResults[2].encryptedChunk
       # sdcRes.transmissionResults[2].originalChunk

\* ------------------------------------------------- backend-reported failure

\* the last attempt of a finished call ended with the backend reporting a
\* failure: a non-ok response, or an ok response whose body has an error field
LastOutcome == outcomes[Len(outcomes)]
BackendReportedFailure ==
  /\ pc \in {"returned", "threw"}
  /\ outcomes # <<>>
  /\ \/ LastOutcome.how = "backend-error"
     \/ LastOutcome.how = "ok" /\ LastOutcome.err # NoError

\* C22 as stated, for the transmit path: a failure the backend reported on the
\* attempt that ended the call reaches the caller as a thrown error carrying
\* the backend's message, or the status-code message when there is none.
C22_BackendFailurePropagated ==
  BackendReportedFailure =>
    /\ pc = "threw"
    /\ thrown.last = LastOutcome.err
    /\ thrown.last.text # ""

\* ===================================================== full simulation run

\* C23 (as the code has it): after a run that completed, the persisted
\* payload is the concatenation in index order of the receivedChunk of every
\* result, which is the ciphertext chunk sent only where the backend gave no
\* corrected message; no step changes the stored key or the secure flag.
C23_PersistedPayload ==
  /\ [](simPc = "done" =>
          /\ Len(sdcResults.transmissionResults) = Len(sdcResults.encryptedChunks)
          /\ store.encryptedBinary
               = Join([k \in 1..Len(sdcResults.transmissionResults) |->
                         sdcResults.transmissionResults[k].receivedChunk]))
  /\ [][/\ store.qkdKey' = store.qkdKey
         /\ store.qkdSecure' = store.qkdSecure]_vars

\* a run completed over an earlier payload, and what it persisted is not what
\* it sent
C23_Witness ==
  /\ simPc = "done"
  /\ store.qkdKey = <<0, 1, 1>>
  /\ store.qkdSecure = "true"
  /\ store.encryptedBinary # <<1, 0>>
  /\ store.encryptedBinary # Join(sdcResults.encryptedChunks)
  /\ sdcResults.successfulTransmissions > 0

\* C23 as stated: the persisted payload is the concatenation of the
\* ciphertext chunks that were sent.
C23_PersistedPayloadIsSent ==
  simPc = "done" => store.encryptedBinary = Join(sdcResults.encryptedChunks)

\* ------------------------------------------------------------ decodeRecord

\* the number a 32-bit field stands for, less the offset
FieldValue(bits) == NumMinus(ParseNum(bits), NumOf(DegreeOffset * Scale))

C25_FixedWidthBits ==
  applied = "encode" =>
    /\ Len(output.floatToBinary) = CoordBits
    /\ \A i \in 1..Len(output.floatToBinary) : output.floatToBinary[i] \in Bit
    /\ Len(output.toBinary) = CoordBits
    /\ \A i \in 1..Len(output.toBinary) : output.toBinary[i] \in Bit

\* ---------------------------------------------------- end-to-end integrity

\* what the reconstructed string holds at the position of result k
PieceAt(rs, k) == SubSeq(decryptedMessage, StartOf(rs, k) + 1, StartOf(rs, k + 1))

\* every chunk that was accepted came back as the ciphertext chunk sent
FaithfulChannel(rs) ==
  \A k \in 1..Len(rs) :
    rs[k].status = "OK" => rs[k].receivedChunk = rs[k].encryptedChunk

\* C26: after a completed run, if every OK chunk was received equal to the
\* ciphertext chunk sent, the reconstructed string is the 65-bit record padded
\* with one trailing 0 and decoding it gives the original latitude, longitude
\* and flag; and the reconstructed chunk at a position differs from the
\* plaintext chunk only if the result is OK and its receivedChunk differs from
\* the ciphertext chunk sent.
C26_EndToEndIntegrity ==
  simPc = "done" =>
    LET rs == sdcResults.transmissionResults
    IN /\ FaithfulChannel(rs) =>
            /\ Len(binaryData) = RecordBits
            /\ decryptedMessage = binaryData \o <<0>>
            /\ decoded = Record(NumOf(predicted.lat), NumOf(predicted.lon),
                                predicted.restricted)
       /\ \A k \in 1..Len(rs) :
            PieceAt(rs, k) # rs[k].originalChunk =>
              /\ rs[k].status = "OK"
              /\ rs[k].receivedChunk # rs[k].encryptedChunk

\* a run under the 3-bit key in which some chunks were accepted as sent and the
\* others failed, and the record came out whole
C26_Witness ==
  /\ simPc = "done"
  /\ store.qkdKey = <<0, 1, 1>>
  /\ FaithfulChannel(sdcResults.transmissionResults)
  /\ sdcResults.successfulTransmissions > 0
  /\ sdcResults.successfulTransmissions < Len(sdcResults.transmissionResults)
  /\ predicted.restricted = "Yes"
  /\ decoded.restricted = "Yes"
  /\ decoded.lat = NumOf(predicted.lat)

\* ------------------------------------------------------ result and error

\* C27: in every reachable state of the job-stream consumer the decoded
\* result and the error message are not both set.
C27_ResultXorError == ~(decodedResult # Null /\ error # Null)

\* a first session ended by itself, a second one was started and delivered a
\* result after progress, and no error is shown
C27_Witness ==
  /\ Len(conns) = 2
  /\ superseded = {}
  /\ lastProgress # NoEvent
  /\ decodedResult = "r2"
  /\ error = Null

\* ------------------------------------------------- connection and loading

\* C28: whenever a connection is open (connecting or streaming) loading is
\* true; after every terminal outcome (done, error event, transport failure)
\* no connection is open and loading is false, which is the state in which
\* the start button (disabled while loading) lets a new session begin.
C28_LoadingTracksConnection ==
  /\ OpenConns # {} => loading
  /\ terminal # NoTerminal => OpenConns = {} /\ ~loading

\* the stream dropped while the browser was about to reconnect, and the
\* component can start the next session
C28_Witness ==
  /\ terminal.kind = "transport"
  /\ lastProgress # NoEvent
  /\ mounted
  /\ Len(conns) < MaxSessions
  /\ OpenConns = {}
  /\ ~loading

\* ---------------------------------------------------------- failed runs

\* the part of C29 about a failed run: it leaves the persisted payload and the
\* stored transmission results as they were, sets an error message and clears
\* the loading flag (only the completion of a run writes payload and results)
C29_FailedRunKeepsState ==
  /\ [](simPc = "failed" => /\ ~isLoading
                            /\ simError # NoRunError
                            /\ simError.text # "")
  /\ [][simPc' # "done" =>
          /\ store' = store
          /\ sdcResults' = sdcResults]_vars

\* the send failed on both endpoints and the run reported it
C29_FailedRunReached ==
  /\ simPc = "failed"
  /\ pc = "threw"
  /\ Len(outcomes) = NumCandidates
  /\ store.encryptedBinary = <<1, 0>>
  /\ ~isLoading

\* C29 as stated, the last part in finite form: on every run the loading flag
\* is eventually false again, that is, whenever loading is true either the
\* send has ended and the handler is about to clear the flag, or the attempt
\* in flight has its abort timer armed, so that the wait cannot last forever.
C29_LoadingEventuallyCleared ==
  /\ simPc = "failed" => ~isLoading /\ simError # NoRunError
  /\ simPc = "done" => ~isLoading
  /\ isLoading =>
       \/ pc \in {"threw", "returnedNull", "returned"}
       \/ urlIdx \in timers

\* ------------------------------------------------------- chunks and stream

\* C30: for every non-empty key and every bit string, the encrypted 2-bit
\* chunks (chunk i at offset (i*2) mod len(key)) joined in order equal the
\* one-time pad applied at offset 0 to the zero-padded string, and on the
\* first len(data) positions they are, as characters, the character-wise
\* otpEncrypt of the unpadded string under the same key.
C30_ChunksEqualStream ==
  applied = "stream" =>
    /\ output.chunked = output.whole
    /\ Len(output.chunked) = Len(input.data) + (Len(input.data) % 2)
    /\ CharCodes(SubSeq(output.chunked, 1, Len(input.data))) = output.chars

\* a 3-bit key over three chunks, the last one padded: the key wraps inside
\* the second chunk and the pad changes the data
C30_Witness ==
  /\ applied = "stream"
  /\ input.key = <<0, 1, 1>>
  /\ Len(input.data) = MaxStream
  /\ output.chunked # PadEnd(input.data, Len(input.data) + (Len(input.data) % 2))
  /\ output.chunked = output.whole

====
